---- MODULE Spec2Model ----
(***************************************************************************)
(* Model of src/singleroom_server.py: the single-room presentation server. *)
(* SessionController is the room (registry, nick set, presentation flags), *)
(* ClientWSConnection is one websocket connection and its handlers.        *)
(*                                                                         *)
(* Python values are written as text: a nick or a wire message is a TLA+   *)
(* string, a requested nickname and an inbound message are sequences of    *)
(* characters / tokens (so that sanitising and splitting do real work),    *)
(* None is the empty sequence where an optional value is stored, and the   *)
(* value held by a policy flag is the Python repr of what json.loads       *)
(* returned ("True", "False", "None", "1").                                *)
(*                                                                         *)
(* Transport: in Spec every write_message to a registered connection       *)
(* succeeds.                                                               *)
(***************************************************************************)
EXTENDS Naturals, Sequences, FiniteSets, TLC

\* The number of connection objects that can be alive at once.
MaxConns == 2

Conns == 1..MaxConns

VARIABLES
    clients,                    \* SessionController.clients: nick -> client_obj
    nicks,                      \* SessionController.nicks
    presentation_started,       \* SessionController._presentation_started
    follow_instructor,          \* SessionController._follow_instructor
    lock_student_nav,           \* SessionController._lock_student_nav
    latest_instructor_state,    \* SessionController._latest_instructor_state
    conn_open,                  \* per connection: the websocket is open
    conn_nick,                  \* ClientWSConnection._nick: <<>> (None) or <<nick>>
    is_instructor,              \* ClientWSConnection._is_instructor
    gone,                       \* the connections whose peer is gone while on_close is still to come
    sent,                       \* per connection: the messages written to it by the last event
    last,                       \* the last event: what it was, on which connection, its input, the error that escaped
    alloc_in,                   \* allocator harness: the requested nickname
    alloc_taken,                \* allocator harness: the taken-set
    alloc_out                   \* allocator harness: <<>> or <<the nick returned>>

room == <<presentation_started, follow_instructor, lock_student_nav, latest_instructor_state>>
registry == <<clients, nicks>>
connections == <<conn_open, conn_nick, is_instructor, gone>>
harness == <<alloc_in, alloc_taken, alloc_out>>
vars == <<clients, nicks, presentation_started, follow_instructor,
          lock_student_nav, latest_instructor_state, conn_open, conn_nick,
          is_instructor, gone, sent, last, alloc_in, alloc_taken, alloc_out>>

----------------------------------------------------------------------------
(* Text helpers *)

\* Characters matched by \w and by \s in the regular expressions of get_safe_nick.
WordChars == {"B", "o", "b", "0", "1", "2", "3", "4", "5", "6", "7", "8", "9", "_"}
SpaceChars == {" "}

RECURSIVE Join(_)
Join(chars) == IF chars = <<>> THEN "" ELSE Head(chars) \o Join(Tail(chars))

Digits == <<"0", "1", "2", "3", "4", "5", "6", "7", "8", "9">>

\* Python's str(i) of a non-negative integer.
RECURSIVE str(_)
str(i) == IF i < 10 THEN Digits[i + 1] ELSE str(i \div 10) \o Digits[(i % 10) + 1]

\* Every ordering of a finite set (the iteration orders of a Python set).
Orders(S) == {o \in [1..Cardinality(S) -> S] : \A i, j \in DOMAIN o : i # j => o[i] # o[j]}

----------------------------------------------------------------------------
(* SessionController *)

\* re.sub(r"[^\w\s]", '', initial_nick)
strip_non_word(chars) == SelectSeq(chars, LAMBDA ch : ch \in WordChars \cup SpaceChars)

\* re.sub(r"\s+", '', safe_nick)
strip_space(chars) == SelectSeq(chars, LAMBDA ch : ch \notin SpaceChars)

\* The suffix the loop of get_safe_nick appends on its i-th turn.
next_candidate(safe_nick, i) == safe_nick \o str(i)

\* The while loop of get_safe_nick.
RECURSIVE safe_nick_loop(_, _, _)
safe_nick_loop(safe_nick, i, taken) ==
    IF safe_nick \in taken
    THEN safe_nick_loop(next_candidate(safe_nick, i), i + 1, taken)
    ELSE safe_nick

get_safe_nick(initial_nick, taken) ==
    safe_nick_loop(Join(strip_space(strip_non_word(initial_nick))), 1, taken)

\* A registration that also promotes the second client.
is_first_participant_upto1(cl) == Cardinality(DOMAIN cl) <= 1

\* The first-client test asking for a registry without an Instructor.
is_first_participant_no_instructor(cl) == \A n \in DOMAIN cl : ~cl[n].instructor

\* len(self.clients)==0 : the test that makes a client the instructor.
is_first_participant(cl) == Cardinality(DOMAIN cl) = 0

\* self.clients[final_nick] = client_obj
dict_set(cl, key, value) == [k \in DOMAIN cl \cup {key} |-> IF k = key THEN value ELSE cl[k]]

\* del(self.clients[nick])
dict_del(cl, key) == [k \in DOMAIN cl \ {key} |-> cl[k]]

\* The connections held by the registry.
registered(cl) == {cl[n].connection : n \in DOMAIN cl}

no_output == [c \in Conns |-> <<>>]

\* connection.write_message(msg)
write_message(out, conn, msg) == [out EXCEPT ![conn] = Append(@, msg)]

\* for nick in self.clients: self.clients[nick]['connection'].write_message(msg)
write_all(cl, out, msg) ==
    [c \in Conns |-> IF c \in registered(cl) THEN Append(out[c], msg) ELSE out[c]]

\* for nick in self.clients: if not conn._is_instructor: conn.write_message(msg)
write_participants(cl, out, msg) ==
    [c \in Conns |-> IF c \in registered(cl) /\ ~is_instructor[c]
                     THEN Append(out[c], msg) ELSE out[c]]

RECURSIVE nicklist_items(_)
nicklist_items(order) ==
    IF order = <<>> THEN ""
    ELSE "<li>" \o Head(order) \o "</li>" \o nicklist_items(Tail(order))

\* The message of broadcast_nicklist; order is the iteration order of self.nicks.
nicklist_msg(order) == "nicklist|" \o "<ul>" \o nicklist_items(order) \o "</ul>"

broadcast_nicklist(cl, order, out) == write_all(cl, out, nicklist_msg(order))

\* Truth value of a Python value in an if.
truthy(v) == v \notin {"False", "None", "0", ""}

\* json.dumps of a value json.loads returned.
json_dumps(v) ==
    CASE v = "True" -> "true"
      [] v = "False" -> "false"
      [] v = "None" -> "null"
      [] OTHER -> v

\* json.loads: <<value>> for a JSON text, <<>> when it raises ValueError.
json_loads(text) ==
    CASE text = "true" -> <<"True">>
      [] text = "false" -> <<"False">>
      [] text = "null" -> <<"None">>
      [] text = "1" -> <<"1">>
      [] OTHER -> <<>>

\* The two flags written under each other's key.
generate_start_presentation_msg_swapped(follow, lock) ==
    "load_presentation|"
        \o "{\"source\": \"/static/presentations/pres1/index.html\", "
        \o "\"follow_instructor\": " \o json_dumps(lock) \o ", "
        \o "\"lock_student_nav\": " \o json_dumps(follow) \o "}"

generate_start_presentation_msg(follow, lock) ==
    "load_presentation|"
        \o "{\"source\": \"/static/presentations/pres1/index.html\", "
        \o "\"follow_instructor\": " \o json_dumps(follow) \o ", "
        \o "\"lock_student_nav\": " \o json_dumps(lock) \o "}"

\* render_file: the templates are not part of the source; the rendered panel is
\* named by its template and its argument.
render_file(filename, navigation_locked) ==
    IF navigation_locked = <<>> THEN filename
    ELSE filename \o "?navigation_locked=" \o navigation_locked[1]

\* What a message handler leaves behind: the room fields, the messages written
\* and the exception that escaped it ("None" when it returned normally).
returns ==
    [started |-> presentation_started, follow |-> follow_instructor,
     lock |-> lock_student_nav, state |-> latest_instructor_state,
     out |-> no_output, raised |-> "None"]

raises(exc) == [returns EXCEPT !.raised = exc]

\* A catch-up that is written to every registered connection.
send_start_presentation_all(conn, out) ==
    [k \in Conns |->
        IF k = conn \/ k \in registered(clients)
        THEN Append(out[k], generate_start_presentation_msg(follow_instructor, lock_student_nav))
        ELSE out[k]]

\* A catch-up that writes nothing.
send_start_presentation_skip(conn, out) == out

send_start_presentation(conn, out) ==
    write_message(out, conn, generate_start_presentation_msg(follow_instructor, lock_student_nav))

broadcast_start_presentation ==
    [returns EXCEPT
        !.out = write_all(clients, no_output,
                          generate_start_presentation_msg(follow_instructor, lock_student_nav)),
        !.started = TRUE]

\* A finish that leaves lockStudentNav as it is.
broadcast_finish_presentation_keep_lock ==
    [returns EXCEPT
        !.out = write_all(clients, no_output, "finish_presentation"),
        !.started = FALSE,
        !.follow = "True"]

broadcast_finish_presentation ==
    [returns EXCEPT
        !.out = write_all(clients, no_output, "finish_presentation"),
        !.started = FALSE,
        !.follow = "True",
        !.lock = "True"]

\* A reveal that does not leave the Instructor out.
broadcast_reveal_state_all(state_txt) ==
    write_all(clients, no_output, "instructor_state|" \o state_txt)

broadcast_reveal_state(state_txt) ==
    write_participants(clients, no_output, "instructor_state|" \o state_txt)

\* A lock broadcast that does not leave the Instructor out.
broadcast_lock_student_nav_all(lockstate) ==
    write_all(clients, no_output, "lock_student_nav|" \o json_dumps(lockstate))

broadcast_lock_student_nav(lockstate) ==
    write_participants(clients, no_output, "lock_student_nav|" \o json_dumps(lockstate))

----------------------------------------------------------------------------
(* ClientWSConnection: the request handlers.  msg_parts[1] is the command    *)
(* name (Python's msg_parts[0]), msg_parts[2] the first payload field.       *)

\* start_presentation handled without the role check.
handle_start_presentation_any(self, msg_parts) == broadcast_start_presentation

handle_start_presentation(self, msg_parts) ==
    IF ~is_instructor[self] THEN returns
    ELSE broadcast_start_presentation

handle_slide_changed(self, msg_parts) ==
    IF Len(msg_parts) < 2 THEN raises("IndexError")
    ELSE LET state_txt == msg_parts[2] IN
         IF is_instructor[self]
         THEN [returns EXCEPT
                  !.state = state_txt,
                  !.out = IF truthy(follow_instructor)
                          THEN broadcast_reveal_state(state_txt) ELSE no_output]
         ELSE returns

handle_lock_follow_instructor(self, msg_parts) ==
    IF ~is_instructor[self] THEN returns
    ELSE IF Len(msg_parts) < 2 THEN raises("IndexError")
    ELSE LET lock == json_loads(msg_parts[2]) IN
         IF lock = <<>> THEN raises("ValueError")
         ELSE [returns EXCEPT !.follow = lock[1]]

\* lock_student_nav handled without the role check.
handle_lock_student_nav_any(self, msg_parts) ==
    IF Len(msg_parts) < 2 THEN raises("IndexError")
    ELSE LET lock == json_loads(msg_parts[2]) IN
         IF lock = <<>> THEN raises("ValueError")
         ELSE [returns EXCEPT !.lock = lock[1], !.out = broadcast_lock_student_nav(lock[1])]

handle_lock_student_nav(self, msg_parts) ==
    IF ~is_instructor[self] THEN returns
    ELSE IF Len(msg_parts) < 2 THEN raises("IndexError")
    ELSE LET lock == json_loads(msg_parts[2]) IN
         IF lock = <<>> THEN raises("ValueError")
         ELSE [returns EXCEPT !.lock = lock[1], !.out = broadcast_lock_student_nav(lock[1])]

\* A sync that broadcasts for a Participant too.
handle_sync_to_instructor_broadcast(self, msg_parts) ==
    [returns EXCEPT !.out = broadcast_reveal_state(latest_instructor_state)]

handle_sync_to_instructor(self, msg_parts) ==
    LET state_txt == latest_instructor_state IN
    IF is_instructor[self]
    THEN [returns EXCEPT !.out = broadcast_reveal_state(state_txt)]
    ELSE [returns EXCEPT !.out = write_message(no_output, self, "instructor_state|" \o state_txt)]

handle_finish_presentation(self, msg_parts) ==
    IF ~is_instructor[self] THEN returns
    ELSE broadcast_finish_presentation

\* message.split('|') of a message given as tokens, "|" being the delimiter.
RECURSIVE split(_)
split(message) ==
    IF message = <<>> THEN <<"">>
    ELSE LET front == split(SubSeq(message, 1, Len(message) - 1))
             tok == message[Len(message)]
         IN IF tok = "|" THEN Append(front, "")
            ELSE [front EXCEPT ![Len(front)] = @ \o tok]

\* The names for which getattr(self, 'handle_' + name) finds a method.
Handlers ==
    {"start_presentation", "slide_changed", "lock_follow_instructor",
     "lock_student_nav", "sync_to_instructor", "finish_presentation"}

\* on_message after the split: the reflective dispatch.
dispatch(self, msg_parts) ==
    LET name == msg_parts[1] IN
    IF name \notin Handlers THEN raises("AttributeError")
    ELSE CASE name = "start_presentation" -> handle_start_presentation(self, msg_parts)
           [] name = "slide_changed" -> handle_slide_changed(self, msg_parts)
           [] name = "lock_follow_instructor" -> handle_lock_follow_instructor(self, msg_parts)
           [] name = "lock_student_nav" -> handle_lock_student_nav(self, msg_parts)
           [] name = "sync_to_instructor" -> handle_sync_to_instructor(self, msg_parts)
           [] name = "finish_presentation" -> handle_finish_presentation(self, msg_parts)

on_message(self, message) == dispatch(self, split(message))

\* A registration that broadcasts the roster before it stores the client.
add_client_roster_first(initial_nick, conn, order) ==
    LET final_nick == get_safe_nick(initial_nick, nicks)
        first == is_first_participant(clients)
        client_obj == [nick |-> final_nick, connection |-> conn, instructor |-> first]
    IN [nick |-> final_nick,
        clients |-> dict_set(clients, final_nick, client_obj),
        nicks |-> nicks \cup {final_nick},
        set_instructor |-> first,
        out |-> broadcast_nicklist(clients, order, no_output)]

\* SessionController.add_client; set_instructor tells whether it called
\* conn.set_instructor(True).  self.instructor, which add_client also assigns, is
\* read nowhere in the program and is not part of the state here.
add_client(initial_nick, conn, order) ==
    LET final_nick == get_safe_nick(initial_nick, nicks)
        first == is_first_participant(clients)
        client_obj == [nick |-> final_nick, connection |-> conn, instructor |-> first]
        cl == dict_set(clients, final_nick, client_obj)
    IN [nick |-> final_nick,
        clients |-> cl,
        nicks |-> nicks \cup {final_nick},
        set_instructor |-> first,
        out |-> broadcast_nicklist(cl, order, no_output)]

\* A removal that broadcasts the roster before it deletes the client.
remove_client_roster_first(key, order) ==
    IF key = <<>> \/ key[1] \notin DOMAIN clients
    THEN [clients |-> clients, nicks |-> nicks, closed |-> {}, out |-> no_output,
          raised |-> "KeyError", log |-> <<>>]
    ELSE LET nick == key[1]
         IN [clients |-> dict_del(clients, nick), nicks |-> nicks \ {nick},
             closed |-> {clients[nick].connection},
             out |-> broadcast_nicklist(clients, order, no_output), raised |-> "None",
             log |-> <<"connection.close", "broadcast_nicklist", "del clients[nick]",
                       "nicks.remove">>]

\* A removal that leaves the nick in the uniqueness set.
remove_client_keep_nick(key, order) ==
    IF key = <<>> \/ key[1] \notin DOMAIN clients
    THEN [clients |-> clients, nicks |-> nicks, closed |-> {}, out |-> no_output,
          raised |-> "KeyError", log |-> <<>>]
    ELSE LET nick == key[1]
             cl == dict_del(clients, nick)
         IN [clients |-> cl, nicks |-> nicks,
             closed |-> {clients[nick].connection},
             out |-> broadcast_nicklist(cl, order, no_output), raised |-> "None",
             log |-> <<"connection.close", "del clients[nick]", "broadcast_nicklist">>]

\* SessionController.remove_client; key is the connection's _nick (<<>> for None).
\* log lists the statements that ran, in the order they ran.
remove_client(key, order) ==
    IF key = <<>> \/ key[1] \notin DOMAIN clients
    THEN [clients |-> clients, nicks |-> nicks, closed |-> {}, out |-> no_output,
          raised |-> "KeyError", log |-> <<>>]
    ELSE LET nick == key[1]
             cl == dict_del(clients, nick)
         IN IF nick \notin nicks
            THEN [clients |-> cl, nicks |-> nicks, closed |-> {clients[nick].connection},
                  out |-> no_output, raised |-> "KeyError",
                  log |-> <<"connection.close", "del clients[nick]">>]
            ELSE [clients |-> cl, nicks |-> nicks \ {nick},
                  closed |-> {clients[nick].connection},
                  out |-> broadcast_nicklist(cl, order, no_output), raised |-> "None",
                  log |-> <<"connection.close", "del clients[nick]", "nicks.remove",
                            "broadcast_nicklist">>]

----------------------------------------------------------------------------
(* Inputs *)

\* The nicknames a client may ask for, as characters.
RequestedNicks ==
    { <<"B", "o", "b", "!">>, <<"!", " ">>, <<"B", "o", "b", " ", "1">> }

\* The allocator harness: requested nicknames and the nicks a taken-set is drawn from.
AllocRequests ==
    RequestedNicks \cup { <<"B", "o", "b">>, <<"B", "o", "b", "!", "!", " ", "2">> }

AllocTaken == {"Bob", "Bob1", "Bob2", "Bob12", "", "1"}

\* The inbound messages, as tokens.
Messages ==
    { <<"start_presentation">>,
      <<"finish_presentation">>, <<"sync_to_instructor">>,
      <<"slide_changed", "|", "3">>, <<"slide_changed", "|", "7">>, <<"slide_changed">>,
      <<"lock_follow_instructor", "|", "true">>, <<"lock_follow_instructor", "|", "false">>,
      <<"lock_follow_instructor", "|", "null">>, <<"lock_follow_instructor">>,
      <<"lock_student_nav", "|", "true">>, <<"lock_student_nav", "|", "false">>,
      <<"lock_student_nav", "|", "tru">>,
      <<"bogus">>, <<>> }

----------------------------------------------------------------------------
(* The server: one action per event the network layer delivers *)

InitServer ==
    /\ clients = <<>>
    /\ nicks = {}
    /\ presentation_started = FALSE
    /\ follow_instructor = "True"
    /\ lock_student_nav = "True"
    /\ latest_instructor_state = ""
    /\ conn_open = [c \in Conns |-> FALSE]
    /\ conn_nick = [c \in Conns |-> <<>>]
    /\ is_instructor = [c \in Conns |-> FALSE]
    /\ gone = {}
    /\ sent = no_output
    /\ last = [op |-> "init", conn |-> 0, arg |-> <<>>, raised |-> "None", log |-> <<>>]

Init ==
    /\ InitServer
    /\ alloc_in = <<>>
    /\ alloc_taken = {}
    /\ alloc_out = <<>>

\* ClientWSConnection.initialize and open, on a connection object not open yet.
Open(c, initial_nick) ==
    /\ ~conn_open[c]
    /\ \E order \in Orders(nicks \cup {get_safe_nick(initial_nick, nicks)}) :
         LET added == add_client(initial_nick, c, order)
             panel == IF added.set_instructor
                      THEN "panel_content|" \o render_file("instructor_panel.html", <<>>)
                      ELSE "panel_content|" \o render_file("participant_panel.html",
                                                            <<lock_student_nav>>)
             out1 == write_message(added.out, c, panel)
         IN /\ clients' = added.clients
            /\ nicks' = added.nicks
            /\ is_instructor' = [is_instructor EXCEPT ![c] = added.set_instructor]
            /\ conn_nick' = [conn_nick EXCEPT ![c] = <<added.nick>>]
            /\ conn_open' = [conn_open EXCEPT ![c] = TRUE]
            /\ sent' = IF presentation_started THEN send_start_presentation(c, out1) ELSE out1
    /\ last' = [op |-> "open", conn |-> c, arg |-> initial_nick, raised |-> "None",
                log |-> <<>>]
    /\ UNCHANGED <<room, harness, gone>>

\* ClientWSConnection.on_close.  The connection object is discarded after it:
\* its slot reads as initialize() leaves a new object.
Close(c) ==
    /\ conn_open[c]
    /\ \E order \in Orders(nicks \ {conn_nick[c][k] : k \in DOMAIN conn_nick[c]}) :
         LET removed == remove_client(conn_nick[c], order)
         IN /\ clients' = removed.clients
            /\ nicks' = removed.nicks
            /\ conn_open' = [k \in Conns |-> conn_open[k] /\ k # c /\ k \notin removed.closed]
            /\ sent' = removed.out
            /\ last' = [op |-> "close", conn |-> c, arg |-> <<>>, raised |-> removed.raised,
                        log |-> removed.log]
    /\ conn_nick' = [conn_nick EXCEPT ![c] = <<>>]
    /\ is_instructor' = [is_instructor EXCEPT ![c] = FALSE]
    /\ gone' = gone \ {c}
    /\ UNCHANGED <<room, harness>>

\* ClientWSConnection.on_message.
Message(c, message) ==
    /\ conn_open[c]
    /\ LET r == on_message(c, message)
       IN /\ presentation_started' = r.started
          /\ follow_instructor' = r.follow
          /\ lock_student_nav' = r.lock
          /\ latest_instructor_state' = r.state
          /\ sent' = r.out
          /\ last' = [op |-> "message", conn |-> c, arg |-> split(message), raised |-> r.raised,
                      log |-> <<>>]
    /\ UNCHANGED <<registry, connections, harness>>

Next ==
    \/ \E c \in Conns, initial_nick \in RequestedNicks : Open(c, initial_nick)
    \/ \E c \in Conns : Close(c)
    \/ \E c \in Conns, message \in Messages : Message(c, message)

Spec == Init /\ [][Next]_vars

----------------------------------------------------------------------------
(* The nickname allocator on its own: get_safe_nick applied to a requested     *)
(* nickname and a taken-set.  Every finite set of sanitised nicks is a value   *)
(* self.nicks can have (each can be asked for as it is).                       *)

InitAlloc ==
    /\ InitServer
    /\ alloc_in \in AllocRequests
    /\ alloc_taken \in SUBSET AllocTaken
    /\ alloc_out = <<>>

Allocate ==
    /\ alloc_out = <<>>
    /\ alloc_out' = <<get_safe_nick(alloc_in, alloc_taken)>>
    /\ UNCHANGED <<registry, connections, room, sent, last, alloc_in, alloc_taken>>

NextAlloc == Allocate

SpecAlloc == InitAlloc /\ [][NextAlloc]_vars

----------------------------------------------------------------------------
(* The server with failing writes and failing opens.  write_message raises     *)
(* on a connection whose peer is gone or whose object was closed; nothing in   *)
(* the program catches it, so it ends the broadcast loop, the method and the   *)
(* event handler it was called from.                                           *)

\* The connections on which write_message raises.
dead == {c \in Conns : c \in gone \/ ~conn_open[c]}

\* What a broadcast loop has written when it raises: order is the iteration
\* order of self.clients (as connections), out what the loop writes when no
\* write fails, broken the connections on which a write raises.
cut_output(out, order, broken) ==
    LET before == {order[i] : i \in {i \in DOMAIN order :
                       \A j \in 1..i : out[order[j]] = <<>> \/ order[j] \notin broken}}
    IN [c \in Conns |-> IF c \in before THEN out[c] ELSE <<>>]

\* A message handler whose broadcast raises: the assignments before the loop
\* (set_instructor_state, _lock_student_nav = lock) are made, those after it
\* (_presentation_started, the resets of finish) are not.
message_interrupted(self, msg_parts, order) ==
    LET r == dispatch(self, msg_parts) IN
    [started |-> presentation_started,
     follow |-> follow_instructor,
     lock |-> IF msg_parts[1] = "lock_student_nav" THEN r.lock ELSE lock_student_nav,
     state |-> r.state,
     out |-> cut_output(r.out, order, dead),
     raised |-> "WebSocketClosedError"]

\* The nicknames and messages of the runs with failures.
FailNicks == { <<"B", "o", "b", "!">> }

FailMessages ==
    { <<"start_presentation">>, <<"finish_presentation">>, <<"sync_to_instructor">>,
      <<"slide_changed", "|", "3">>, <<"lock_student_nav", "|", "false">> }

\* The peer of a registered connection goes away; on_close comes later.
PeerGone(c) ==
    /\ conn_open[c]
    /\ conn_nick[c] # <<>>
    /\ c \notin gone
    /\ gone' = gone \cup {c}
    /\ sent' = no_output
    /\ last' = [op |-> "gone", conn |-> c, arg |-> <<>>, raised |-> "None", log |-> <<>>]
    /\ UNCHANGED <<registry, room, harness, conn_open, conn_nick, is_instructor>>

\* open on a request without the nick argument: get_argument raises before
\* add_client is called, _nick stays None.
OpenFails(c) ==
    /\ ~conn_open[c]
    /\ c \notin registered(clients)
    /\ conn_open' = [conn_open EXCEPT ![c] = TRUE]
    /\ conn_nick' = [conn_nick EXCEPT ![c] = <<>>]
    /\ is_instructor' = [is_instructor EXCEPT ![c] = FALSE]
    /\ sent' = no_output
    /\ last' = [op |-> "open", conn |-> c, arg |-> <<>>, raised |-> "MissingArgumentError",
                log |-> <<>>]
    /\ UNCHANGED <<registry, room, harness, gone>>

\* open; the nicklist broadcast of add_client raises on a dead registered
\* connection, after the client was stored and before _nick is assigned.
OpenF(c, initial_nick) ==
    /\ ~conn_open[c]
    /\ c \notin registered(clients)
    /\ IF registered(clients) \cap dead = {}
       THEN Open(c, initial_nick)
       ELSE /\ \E nick_order \in Orders(nicks \cup {get_safe_nick(initial_nick, nicks)}),
                  order \in Orders(registered(clients) \cup {c}) :
                 LET added == add_client(initial_nick, c, nick_order)
                 IN /\ clients' = added.clients
                    /\ nicks' = added.nicks
                    /\ is_instructor' = [is_instructor EXCEPT ![c] = added.set_instructor]
                    /\ sent' = cut_output(added.out, order, dead \ {c})
            /\ conn_nick' = [conn_nick EXCEPT ![c] = <<>>]
            /\ conn_open' = [conn_open EXCEPT ![c] = TRUE]
            /\ last' = [op |-> "open", conn |-> c, arg |-> initial_nick,
                        raised |-> "WebSocketClosedError", log |-> <<>>]
            /\ UNCHANGED <<room, harness, gone>>

\* on_close; the nicklist broadcast of remove_client raises on a dead
\* connection that is still registered.
CloseF(c) ==
    /\ conn_open[c]
    /\ IF \/ conn_nick[c] = <<>>
          \/ conn_nick[c][1] \notin DOMAIN clients
          \/ registered(dict_del(clients, conn_nick[c][1])) \cap dead = {}
       THEN Close(c)
       ELSE /\ \E nick_order \in Orders(nicks \ {conn_nick[c][1]}),
                  order \in Orders(registered(dict_del(clients, conn_nick[c][1]))) :
                 LET removed == remove_client(conn_nick[c], nick_order)
                 IN /\ clients' = removed.clients
                    /\ nicks' = removed.nicks
                    /\ conn_open' = [k \in Conns |->
                                        conn_open[k] /\ k # c /\ k \notin removed.closed]
                    /\ sent' = cut_output(removed.out, order, dead)
                    /\ last' = [op |-> "close", conn |-> c, arg |-> <<>>,
                                raised |-> "WebSocketClosedError", log |-> removed.log]
            /\ conn_nick' = [conn_nick EXCEPT ![c] = <<>>]
            /\ is_instructor' = [is_instructor EXCEPT ![c] = FALSE]
            /\ gone' = gone \ {c}
            /\ UNCHANGED <<room, harness>>

\* on_message; a broadcast of the handler raises on a dead connection.
MessageF(c, message) ==
    /\ conn_open[c]
    /\ conn_nick[c] # <<>>
    /\ c \notin gone
    /\ IF \A k \in dead : on_message(c, message).out[k] = <<>>
       THEN Message(c, message)
       ELSE /\ \E order \in Orders(registered(clients)) :
                 LET r == message_interrupted(c, split(message), order)
                 IN /\ presentation_started' = r.started
                    /\ follow_instructor' = r.follow
                    /\ lock_student_nav' = r.lock
                    /\ latest_instructor_state' = r.state
                    /\ sent' = r.out
                    /\ last' = [op |-> "message", conn |-> c, arg |-> split(message),
                                raised |-> r.raised, log |-> <<>>]
            /\ UNCHANGED <<registry, connections, harness>>

NextFail ==
    \/ \E c \in Conns, initial_nick \in FailNicks : OpenF(c, initial_nick)
    \/ \E c \in Conns : OpenFails(c)
    \/ \E c \in Conns : CloseF(c)
    \/ \E c \in Conns, message \in FailMessages : MessageF(c, message)
    \/ \E c \in Conns : PeerGone(c)

SpecFail == Init /\ [][NextFail]_vars

----------------------------------------------------------------------------
(* Properties *)

InstructorOnly ==
    {"start_presentation", "slide_changed", "lock_follow_instructor",
     "lock_student_nav", "finish_presentation"}

\* The registered connections with the Participant role.
Participants == {c \in registered(clients) : ~is_instructor[c]}

\* The registered clients with the Instructor role.
InstructorClients == {n \in DOMAIN clients : clients[n].instructor}

\* Each connection of the set was sent exactly msg, everybody else nothing.
OnlySent(out, targets, msg) ==
    \A c \in Conns : out[c] = IF c \in targets THEN <<msg>> ELSE <<>>

\* C1: at most one registered client is the Instructor; a client gets the
\* Instructor role exactly when it registers into an empty registry, and the
\* role of a registered client never changes afterwards.
C1_OneInstructor ==
    /\ [](/\ Cardinality(InstructorClients) <= 1
          /\ \A n \in DOMAIN clients :
                clients[n].instructor = is_instructor[clients[n].connection])
    /\ [][/\ \A n \in DOMAIN clients' \ DOMAIN clients :
                clients'[n].instructor = (DOMAIN clients = {})
          /\ \A n \in DOMAIN clients' \cap DOMAIN clients :
                clients'[n] = clients[n]]_vars

\* A Participant has just registered beside the Instructor.
C1_Witness ==
    /\ last.op = "open"
    /\ ~is_instructor[last.conn]
    /\ Cardinality(InstructorClients) = 1
    /\ Cardinality(DOMAIN clients) = 2

\* C2: the nicks of the registry are pairwise distinct and none is the empty
\* string (the keys of the registry and the nicks stored in its entries).
C2_NicksDistinctNonEmpty ==
    /\ \A n \in DOMAIN clients : clients[n].nick # ""
    /\ \A n \in nicks : n # ""
    /\ \A n, m \in DOMAIN clients : n # m => clients[n].nick # clients[m].nick

\* The sanitised base of a requested nickname, as the claim reads it.
SanitizedBase(requested) == Join(strip_space(strip_non_word(requested)))

\* base+str(k) for the smallest positive k that is not taken.
SmallestFree(base, taken) ==
    LET k == CHOOSE k \in 1..(Cardinality(taken) + 1) :
                 /\ (base \o str(k)) \notin taken
                 /\ \A j \in 1..(k - 1) : (base \o str(j)) \in taken
    IN base \o str(k)

\* C3: the allocator returns the sanitised base when it is free, otherwise
\* base+str(k) for the smallest positive k with base+str(k) free; the result is
\* never taken.
C3_AllocatorMinimal ==
    alloc_out # <<>> =>
        LET base == SanitizedBase(alloc_in) IN
        /\ alloc_out[1] \notin alloc_taken
        /\ alloc_out[1] = IF base \notin alloc_taken THEN base
                          ELSE SmallestFree(base, alloc_taken)

\* C4: an Instructor-only command from a Participant changes neither the room
\* nor the registry and writes to no connection.
C4_ParticipantCommandIgnored ==
    [][(/\ last'.op = "message"
        /\ last'.arg[1] \in InstructorOnly
        /\ ~is_instructor[last'.conn])
       => /\ UNCHANGED <<room, registry, connections>>
          /\ sent' = no_output]_vars

\* A Participant has just sent lock_student_nav while an Instructor is registered
\* and the presentation runs.
C4_Witness ==
    /\ last.op = "message"
    /\ last.arg = <<"lock_student_nav", "false">>
    /\ last.conn \in Participants
    /\ InstructorClients # {}
    /\ presentation_started
    /\ lock_student_nav = "True"

\* C5: the phase starts Idle; it becomes Running only in a start_presentation
\* handled for the Instructor and Idle again only in a finish_presentation
\* handled for the Instructor.
C5_PhaseMachine ==
    /\ ~presentation_started
    /\ [][presentation_started' # presentation_started
          => /\ last'.op = "message"
             /\ is_instructor[last'.conn]
             /\ last'.arg[1] = IF presentation_started'
                               THEN "start_presentation" ELSE "finish_presentation"]_vars

\* The Instructor has started the presentation, with a Participant in the room.
C5_Witness ==
    /\ presentation_started
    /\ last.op = "message"
    /\ last.arg[1] = "start_presentation"
    /\ is_instructor[last.conn]
    /\ Participants # {}

\* C6: after a finish_presentation of the Instructor both flags are true, the
\* phase is Idle and every registered client, the Instructor included, was sent
\* exactly one finish_presentation.
C6_FinishResets ==
    [][(/\ last'.op = "message"
        /\ last'.arg[1] = "finish_presentation"
        /\ is_instructor[last'.conn])
       => /\ follow_instructor' = "True"
          /\ lock_student_nav' = "True"
          /\ ~presentation_started'
          /\ OnlySent(sent', registered(clients), "finish_presentation")]_vars

\* The Instructor has just finished a presentation before a Participant.
C6_Witness ==
    /\ last.op = "message"
    /\ last.arg[1] = "finish_presentation"
    /\ is_instructor[last.conn]
    /\ Participants # {}
    /\ sent[last.conn] = <<"finish_presentation">>

\* The JSON text of a flag value.
FlagJson(v) == IF v = "True" THEN "true" ELSE IF v = "False" THEN "false" ELSE "null"

\* The load_presentation message that carries the two flag values.
LoadPresentation(follow, lock) ==
    "load_presentation|{\"source\": \"/static/presentations/pres1/index.html\", \"follow_instructor\": "
        \o FlagJson(follow) \o ", \"lock_student_nav\": " \o FlagJson(lock) \o "}"

\* C7: a start_presentation of the Instructor sends every registered client, the
\* Instructor included, exactly one load_presentation that carries the values
\* followInstructor and lockStudentNav have when it is handled.
C7_StartBroadcast ==
    [][(/\ last'.op = "message"
        /\ last'.arg[1] = "start_presentation"
        /\ is_instructor[last'.conn])
       => OnlySent(sent', registered(clients),
                   LoadPresentation(follow_instructor, lock_student_nav))]_vars

\* The Instructor has just started the presentation before a Participant, with
\* the two flags different.
C7_Witness ==
    /\ last.op = "message"
    /\ last.arg[1] = "start_presentation"
    /\ is_instructor[last.conn]
    /\ Participants # {}
    /\ follow_instructor = "False"
    /\ lock_student_nav = "True"
    /\ \A c \in registered(clients) : Len(sent[c]) = 1

\* C8: a slide_changed with text s of the Instructor stores s; when
\* followInstructor is true every Participant, and not the Instructor, is sent
\* instructor_state with s; when it is false nobody is sent anything.
C8_SlideChanged ==
    [][(/\ last'.op = "message"
        /\ last'.arg[1] = "slide_changed"
        /\ Len(last'.arg) >= 2
        /\ is_instructor[last'.conn])
       => /\ latest_instructor_state' = last'.arg[2]
          /\ follow_instructor = "True"
                => OnlySent(sent', Participants, "instructor_state|" \o last'.arg[2])
          /\ follow_instructor = "False" => sent' = no_output]_vars

\* The Instructor has just sent slide_changed|7 and a Participant, not the
\* Instructor, was sent the new state.
C8_Witness ==
    /\ last.op = "message"
    /\ last.arg = <<"slide_changed", "7">>
    /\ is_instructor[last.conn]
    /\ follow_instructor = "True"
    /\ latest_instructor_state = "7"
    /\ \E c \in Participants : sent[c] = <<"instructor_state|7">>
    /\ sent[last.conn] = <<>>

\* C9: sync_to_instructor of a Participant sends the stored state to that
\* Participant alone; of the Instructor, to every Participant and not to the
\* Instructor; the room is unchanged, whatever followInstructor is.
C9_Sync ==
    [][(/\ last'.op = "message"
        /\ last'.arg[1] = "sync_to_instructor")
       => /\ UNCHANGED <<room, registry, connections>>
          /\ OnlySent(sent',
                      IF is_instructor[last'.conn] THEN Participants ELSE {last'.conn},
                      "instructor_state|" \o latest_instructor_state)]_vars

\* A Participant has just synced, beside the Instructor, with followInstructor false.
C9_Witness ==
    /\ last.op = "message"
    /\ last.arg[1] = "sync_to_instructor"
    /\ last.conn \in Participants
    /\ InstructorClients # {}
    /\ follow_instructor = "False"
    /\ latest_instructor_state = "3"
    /\ sent[last.conn] = <<"instructor_state|3">>

\* A message the router is to discard: an unknown command name, or a known
\* command whose payload field is missing or is not JSON.
Discarded(msg_parts) ==
    \/ msg_parts[1] \notin Handlers
    \/ /\ msg_parts[1] \in {"slide_changed", "lock_follow_instructor", "lock_student_nav"}
       /\ Len(msg_parts) < 2
    \/ /\ msg_parts[1] \in {"lock_follow_instructor", "lock_student_nav"}
       /\ Len(msg_parts) >= 2
       /\ json_loads(msg_parts[2]) = <<>>

\* C10: an unknown command, or a known one with a missing or malformed payload,
\* is discarded: no error escapes on_message, the sender stays open and
\* registered, the room is unchanged and nothing is written.
C10_BadMessageDiscarded ==
    [][(/\ last'.op = "message"
        /\ Discarded(last'.arg))
       => /\ last'.raised = "None"
          /\ conn_open'[last'.conn]
          /\ last'.conn \in registered(clients')
          /\ UNCHANGED <<room, registry>>
          /\ sent' = no_output]_vars

\* C11: a write that fails on a dead connection is not propagated: no event
\* handler ends with the write error, and when a message's broadcast meets a
\* dead connection the handler's state update still takes effect, every other
\* targeted client still gets the message and the dead client is unregistered.
C11_WriteFailureContained ==
    [][/\ last'.raised # "WebSocketClosedError"
       /\ (/\ last'.op = "message"
           /\ \E k \in dead : dispatch(last'.conn, last'.arg).out[k] # <<>>)
          => LET r == dispatch(last'.conn, last'.arg) IN
             /\ room' = <<r.started, r.follow, r.lock, r.state>>
             /\ \A k \in Conns \ dead :
                   r.out[k] # <<>> => \E i \in DOMAIN sent'[k] : sent'[k][i] = r.out[k][1]
             /\ \A k \in dead : r.out[k] # <<>> => k \notin registered(clients')]_vars

\* C12: on_close of a connection whose nick is not in the registry (the unset
\* nick of a connection whose open did not register it) raises nothing, leaves
\* registry and nick set unchanged and broadcasts no roster.
C12_UnknownNickNoOp ==
    [][(/\ last'.op = "close"
        /\ \/ conn_nick[last'.conn] = <<>>
           \/ conn_nick[last'.conn][1] \notin DOMAIN clients)
       => /\ last'.raised = "None"
          /\ UNCHANGED registry
          /\ sent' = no_output]_vars

\* The nicklist messages that list exactly the nicks of S, in any order.
NicklistOf(S) == {nicklist_msg(o) : o \in Orders(S)}

\* The nicklist messages over the nicks of S or fewer.
NicklistWithin(S) == UNION {NicklistOf(T) : T \in SUBSET S}

\* The panel_content messages.
PanelMessages ==
    {"panel_content|instructor_panel.html"}
        \cup {"panel_content|participant_panel.html?navigation_locked=" \o v :
                 v \in {"True", "False", "None"}}

\* The load_presentation messages.
LoadMessages == {LoadPresentation(f, l) : f, l \in {"True", "False", "None"}}

\* C13: a registration sends exactly one nicklist to every client of the
\* registry after the insertion, the new client included, and that message
\* lists exactly the nicks of the registry after the insertion.
C13_RegistrationRoster ==
    [][(last'.op = "open" /\ last'.raised = "None")
       => \E msg \in NicklistOf(DOMAIN clients') :
            /\ last'.conn \in registered(clients')
            /\ \A c \in Conns :
                 IF c = last'.conn
                 THEN /\ sent'[c][1] = msg
                      /\ \A i \in 2..Len(sent'[c]) :
                            sent'[c][i] \notin NicklistWithin(DOMAIN clients')
                 ELSE sent'[c] = IF c \in registered(clients') THEN <<msg>> ELSE <<>>]_vars

\* A second client has just registered and both were sent the roster of two.
C13_Witness ==
    /\ last.op = "open"
    /\ Cardinality(DOMAIN clients) = 2
    /\ \A c \in registered(clients) : sent[c][1] \in NicklistOf(DOMAIN clients)

\* C14: a connecting client is sent load_presentation, with the current flags,
\* exactly when the phase is Running at that moment; it comes after its nicklist
\* and its one panel_content, and no other client is sent a load_presentation.
C14_LateJoiner ==
    [][(last'.op = "open" /\ last'.raised = "None")
       => LET c == last'.conn IN
          /\ Len(sent'[c]) = IF presentation_started THEN 3 ELSE 2
          /\ sent'[c][1] \in NicklistOf(DOMAIN clients')
          /\ sent'[c][2] \in PanelMessages
          /\ presentation_started
                => sent'[c][3] = LoadPresentation(follow_instructor, lock_student_nav)
          /\ \A k \in Conns \ {c} : \A i \in DOMAIN sent'[k] : sent'[k][i] \notin LoadMessages]_vars

\* A client has just joined a running presentation beside a registered client.
C14_Witness ==
    /\ last.op = "open"
    /\ presentation_started
    /\ Len(sent[last.conn]) = 3
    /\ sent[last.conn][3] \in LoadMessages
    /\ \E k \in registered(clients) \ {last.conn} : Len(sent[k]) = 1

\* The JSON booleans and the flag value each of them stands for.
FlagValue(text) == IF text = "true" THEN "True" ELSE "False"

\* C15: removing a registered client closes its handle, then removes its nick
\* from the registry and from the uniqueness set, then broadcasts one nicklist;
\* the broadcast reaches exactly the clients that remain and lists exactly
\* their nicks, and the removed client is sent nothing.
C15_RemovalOrder ==
    [][(/\ last'.op = "close"
        /\ conn_nick[last'.conn] # <<>>
        /\ conn_nick[last'.conn][1] \in DOMAIN clients)
       => LET c == last'.conn
              nick == conn_nick[c][1]
          IN /\ last'.log = <<"connection.close", "del clients[nick]", "nicks.remove",
                              "broadcast_nicklist">>
             /\ ~conn_open'[c]
             /\ DOMAIN clients' = DOMAIN clients \ {nick}
             /\ nicks' = nicks \ {nick}
             /\ \A n \in DOMAIN clients' : clients'[n] = clients[n]
             /\ \E msg \in NicklistOf(DOMAIN clients') :
                   OnlySent(sent', registered(clients'), msg)
             /\ sent'[c] = <<>>]_vars

\* One of two registered clients has just been removed and the other one was
\* sent the roster that is left.
C15_Witness ==
    /\ last.op = "close"
    /\ last.raised = "None"
    /\ Cardinality(DOMAIN clients) = 1
    /\ sent[last.conn] = <<>>
    /\ \E k \in registered(clients) : sent[k] \in {<<m>> : m \in NicklistOf(DOMAIN clients)}

\* C16: lock_student_nav with a boolean from the Instructor sets lockStudentNav
\* to it, leaves followInstructor alone and sends lock_student_nav with the new
\* flag to every Participant and to nobody else; lock_follow_instructor with a
\* boolean from the Instructor sets followInstructor to it, leaves
\* lockStudentNav alone and sends nothing.
C16_LockToggles ==
    [][(/\ last'.op = "message"
        /\ is_instructor[last'.conn]
        /\ Len(last'.arg) = 2
        /\ last'.arg[2] \in {"true", "false"})
       => LET flag == last'.arg[2] IN
          /\ last'.arg[1] = "lock_student_nav"
                => /\ lock_student_nav' = FlagValue(flag)
                   /\ follow_instructor' = follow_instructor
                   /\ OnlySent(sent', Participants, "lock_student_nav|" \o flag)
          /\ last'.arg[1] = "lock_follow_instructor"
                => /\ follow_instructor' = FlagValue(flag)
                   /\ lock_student_nav' = lock_student_nav
                   /\ sent' = no_output]_vars

\* The Instructor has just unlocked navigation beside a Participant, who was told.
C16_Witness ==
    /\ last.op = "message"
    /\ last.arg = <<"lock_student_nav", "false">>
    /\ is_instructor[last.conn]
    /\ lock_student_nav = "False"
    /\ \E k \in Participants : sent[k] = <<"lock_student_nav|false">>
    /\ sent[last.conn] = <<>>

\* C17: followInstructor and lockStudentNav are booleans in every reachable
\* state, whatever JSON payload the Instructor sends with the two lock commands.
C17_FlagsBoolean ==
    /\ follow_instructor \in {"True", "False"}
    /\ lock_student_nav \in {"True", "False"}

\* C18: once the registry holds clients and none of them is the Instructor,
\* nobody is promoted and no event changes the phase, the flags or the
\* Instructor's latest state, for as long as the registry is not empty; the
\* client that registers into the empty registry becomes the Instructor.
C18_NoPromotion ==
    /\ [][(InstructorClients = {} /\ DOMAIN clients # {})
          => /\ InstructorClients' = {}
             /\ \A c \in registered(clients') : ~is_instructor'[c]
             /\ UNCHANGED room]_vars
    /\ [][(DOMAIN clients = {} /\ DOMAIN clients' # {})
          => /\ InstructorClients' = DOMAIN clients'
             /\ is_instructor'[last'.conn]]_vars

\* A client has just joined a room whose Instructor left, and is a Participant
\* like the client that stayed.
C18_Witness ==
    /\ last.op = "open"
    /\ Cardinality(DOMAIN clients) = 2
    /\ InstructorClients = {}
    /\ \A c \in registered(clients) : ~is_instructor[c]

\* C19: the uniqueness set holds exactly the keys of the registry, and every
\* registry entry stores its key as its nick.
C19_NicksAreKeys ==
    /\ nicks = DOMAIN clients
    /\ \A n \in DOMAIN clients : clients[n].nick = n

\* The nick of the Instructor that left was freed and given to a new client,
\* beside the Participant that stayed.
C19_Witness ==
    /\ last.op = "open"
    /\ DOMAIN clients = {"Bob", "Bob1"}
    /\ nicks = {"Bob", "Bob1"}
    /\ ~clients["Bob"].instructor
    /\ ~clients["Bob1"].instructor

\* C20: a close leaves the phase, the flags and the Instructor's latest state
\* alone, also when it empties the registry; the client that then connects
\* while the phase is Running becomes the Instructor, is sent load_presentation
\* last and changes none of them; a Participant that syncs is sent the latest
\* state the room holds.
C20_RoomOutlivesRegistry ==
    /\ [][last'.op = "close" => UNCHANGED room]_vars
    /\ [][(last'.op = "open" /\ DOMAIN clients = {})
          => LET c == last'.conn IN
             /\ UNCHANGED room
             /\ is_instructor'[c]
             /\ presentation_started
                   => sent'[c][Len(sent'[c])]
                         = LoadPresentation(follow_instructor, lock_student_nav)]_vars
    /\ [][(/\ last'.op = "message"
           /\ last'.arg = <<"sync_to_instructor">>
           /\ ~is_instructor[last'.conn])
          => sent'[last'.conn] = <<"instructor_state|" \o latest_instructor_state>>]_vars

\* A client has just connected to an empty room that was left Running with a
\* slide on record: it is the Instructor and was sent load_presentation.
C20_Witness ==
    /\ last.op = "open"
    /\ Cardinality(DOMAIN clients) = 1
    /\ presentation_started
    /\ latest_instructor_state # ""
    /\ is_instructor[last.conn]
    /\ sent[last.conn][Len(sent[last.conn])] \in LoadMessages

====
